---- MODULE Spec2Model ----
(***************************************************************************)
(* A state-machine model of modules/core/models/tts/CosyVoiceModel.py:     *)
(* the process-wide engine handle of CosyVoiceTTSModel (load / unload      *)
(* under load_lock), the orchestrator instances that share it, and the     *)
(* batch synthesis entry points generate_batch / generate_batch_stream.    *)
(***************************************************************************)
EXTENDS Integers, Sequences, FiniteSets, TLC

\* ------------------------------------------------------------------ bounds

\* Most engine handles (front-end + model pairs) constructed in one behaviour.
MaxInits == 2
\* Longest segment batch (and longest text list of a direct mode call).
MaxSegs == 2

\* ------------------------------------------------------------- identities

\* Caller threads and orchestrator instances of the process.
Threads == {"t1", "t2"}
Insts == {"i1", "i2"}
\* The instance slot of a thread that is between calls.
NoInst == "-"

\* Python's None for a handle slot; handles are numbered from 1.
None == 0
\* The value of the lock when no thread holds it.
Free == "free"

\* ------------------------------------------------------------------ inputs

\* line 51: the orchestrator's own model id; lines 210-211: the two alias ids.
ModelId == "cosy-voice"
AliasIds == <<"cosyvoice_300m_instruct", "cosyvoice_instruct">>
TokenIds == {ModelId, AliasIds[1], AliasIds[2]}

\* A speaker's token record for one model id: absent, or a record holding an
\* embedding sequence that may be empty.
NoTok == [present |-> FALSE, embedding |-> <<>>]
Tok(e) == [present |-> TRUE, embedding |-> e]
Toks(own, a1, a2) ==
    [m \in TokenIds |-> IF m = ModelId THEN own ELSE IF m = AliasIds[1] THEN a1 ELSE a2]

\* A reference clip of a speaker.
Clip(e, txt, w) == [emotion |-> e, text |-> txt, wav |-> w, wav_sr |-> "native"]

\* The speakers of the inputs. A gender string is a sequence of symbols: a
\* Latin word, or one Chinese character named by its code point.
FemaleLatin == "female"
FemaleHan == "U+5973"
NullSpk ==
    [present |-> FALSE, gender |-> <<>>, tokens |-> Toks(NoTok, NoTok, NoTok),
     refs |-> <<>>]
Speaker(g, toks, refs) ==
    [present |-> TRUE, gender |-> g, tokens |-> toks, refs |-> refs]
SpkBoth ==
    Speaker(<<FemaleLatin>>, Toks(Tok(<<"e1", "e2">>), NoTok, NoTok),
            <<Clip("calm", "hello", "w1")>>)
SpkRef ==
    Speaker(<<"male">>, Toks(NoTok, NoTok, NoTok), <<Clip("calm", "hello", "w2")>>)
SpkRefNoText ==
    Speaker(<<"male">>, Toks(NoTok, NoTok, NoTok), <<Clip("calm", "", "w3")>>)
SpkEmptyTok ==
    Speaker(<<"male">>, Toks(Tok(<<>>), NoTok, NoTok), <<>>)
SpkAlias ==
    Speaker(<<"U+4E2D", FemaleHan>>, Toks(NoTok, NoTok, Tok(<<"e3">>)), <<>>)
SpkShadow ==
    Speaker(<<"male">>, Toks(Tok(<<>>), Tok(<<"e4">>), NoTok),
            <<Clip("angry", "grr", "w4"), Clip("calm", "hello", "w5")>>)

SpkYoung ==
    Speaker(<<"young ", FemaleLatin>>, Toks(Tok(<<"e5">>), NoTok, NoTok), <<>>)

\* A text segment (TTSSegment): the fields generate_batch_stream reads.
Seg(txt, spk, emo, p2, seed) ==
    [text |-> txt, spk |-> spk, emotion |-> emo, prompt2 |-> p2, infer_seed |-> seed]

\* The text of the k-th segment of a batch.
TextOf(k) == <<"text", k>>

\* The first segments of the input batches.
Seg0s ==
    { Seg(TextOf(1), SpkBoth, "calm", "", 1),
      Seg(TextOf(1), SpkBoth, "", "soft", 2),
      Seg(TextOf(1), SpkRef, "calm", "", 1),
      Seg(TextOf(1), SpkRef, "angry", "", 1),
      Seg(TextOf(1), SpkRefNoText, "calm", "", 1),
      Seg(TextOf(1), SpkEmptyTok, "calm", "", 1),
      Seg(TextOf(1), SpkAlias, "calm", "", 2),
      Seg(TextOf(1), SpkShadow, "calm", "", 1),
      Seg(TextOf(1), SpkYoung, "", "", 1),
      Seg(TextOf(1), NullSpk, "calm", "", 1) }

\* The segments after the first: the k-th has its own text, and either the
\* first segment's speaker, emotion, prompt and seed (same) or other ones.
TailSeg(s0, k, same) ==
    IF same THEN [s0 EXCEPT !.text = TextOf(k)]
    ELSE Seg(TextOf(k), SpkRefNoText, "angry", "loud", 2)

\* The first segments whose batches are taken at every length.
LongSeg0s ==
    { Seg(TextOf(1), SpkBoth, "calm", "", 1),
      Seg(TextOf(1), SpkRef, "calm", "", 1) }

\* A batch: n segments, the first s0.
Batch(s0, n, same) == [k \in 1..n |-> IF k = 1 THEN s0 ELSE TailSeg(s0, k, same)]

\* The input batches: non-empty, at most MaxSegs segments.
Batches ==
    { Batch(s0, 1, TRUE) : s0 \in Seg0s }
    \cup { Batch(s0, n, TRUE) : s0 \in LongSeg0s, n \in 2..MaxSegs }
    \cup { Batch(Seg(TextOf(1), SpkBoth, "calm", "", 1), n, FALSE) : n \in 2..MaxSegs }

\* The states of the random generator; a seed selects one of them.
RngStates == {0, 1}

\* ------------------------------------------------- conditioning, strategy

\* Python's None where a string-like value is expected.
NoneVal == "None"

\* line 29: the rate reference audio is normalised to.
target_sr == 16000
\* line 297: the rate recorded with every synthesized waveform.
sr == 22050

\* TTSSpeaker.get_token(model_id): the speaker's record for the id, if any.
get_token(spk, id) == spk.tokens[id]

\* TTSSpeaker.get_ref(predicate): the first clip the predicate accepts, if
\* any; accepted is the set of positions of the clips it accepts.
get_ref(spk, accepted) ==
    IF accepted = {} THEN [found |-> FALSE, clip |-> Clip("", "", NoneVal)]
    ELSE [found |-> TRUE,
          clip |-> spk.refs[CHOOSE k \in accepted : \A j \in accepted : k <= j]]

\* lines 208-212: `a or b or c` over the three lookups keeps the first record
\* that is not None (a token record is an object, hence true, whatever its
\* embedding holds).
TokenCfg_mut(spk) ==
    IF get_token(spk, ModelId).embedding # <<>> THEN get_token(spk, ModelId)
    ELSE IF get_token(spk, AliasIds[1]).embedding # <<>> THEN get_token(spk, AliasIds[1])
    ELSE get_token(spk, AliasIds[2])
TokenCfg(spk) ==
    IF get_token(spk, ModelId).present THEN get_token(spk, ModelId)
    ELSE IF get_token(spk, AliasIds[1]).present THEN get_token(spk, AliasIds[1])
    ELSE get_token(spk, AliasIds[2])

\* lines 207-217: spk_to_embedding.
spk_to_embedding(spk) ==
    LET token_cfg == TokenCfg(spk)
    IN  IF ~token_cfg.present THEN NoneVal
        ELSE IF Len(token_cfg.embedding) > 0 THEN token_cfg.embedding[1]
        ELSE NoneVal

\* line 220: the predicate handed to get_ref.
RefMatches_mut(clip, emotion) == TRUE
RefMatches(clip, emotion) == clip.emotion = emotion

\* No waveform (None).
NoWav == [samples |-> NoneVal, rate |-> 0, post |-> FALSE]

\* lines 219-229: spk_to_ref_wav: the matching clip decoded and brought to
\* target_sr, with its transcript; postprocess (lines 32-39) is not called.
spk_to_ref_wav(spk, emotion) ==
    LET ref_data ==
            get_ref(spk, {k \in 1..Len(spk.refs) : RefMatches(spk.refs[k], emotion)})
    IN  IF ~ref_data.found
        THEN [wav |-> NoWav, text |-> NoneVal]
        ELSE [wav |-> [samples |-> ref_data.clip.wav, rate |-> target_sr,
                       post |-> FALSE],
              text |-> ref_data.clip.text]

\* lines 32-39: postprocess: silence trimmed, peak brought down to max_val,
\* 0.2 s of silence appended. Nothing in the file calls it.
postprocess(speech) == [speech EXCEPT !.post = TRUE]

\* `x in s` for a one-symbol x and a string s.
Contains(s, x) == \E k \in 1..Len(s) : s[k] = x

\* lines 264-269: the instruct text: the gendered tag, then the emotion, else
\* the secondary prompt, else the empty string.
InstructText_mut(seg0) ==
    LET base == IF seg0.emotion # "" THEN seg0.emotion
                ELSE IF seg0.prompt2 # "" THEN seg0.prompt2 ELSE ""
        tag == IF seg0.spk.gender = <<FemaleLatin>>
               THEN "female voice. " ELSE "male voice. "
    IN  <<tag, base>>
InstructText(seg0) ==
    LET base == IF seg0.emotion # "" THEN seg0.emotion
                ELSE IF seg0.prompt2 # "" THEN seg0.prompt2 ELSE ""
        tag == IF seg0.spk.gender = <<FemaleLatin>> \/ Contains(seg0.spk.gender, FemaleHan)
               THEN "female voice. " ELSE "male voice. "
    IN  <<tag, base>>

\* The bound inference function: the method and its fixed arguments.
InferFunc(kind, emb, instr, ptext, pwav) ==
    [kind |-> kind, spk_embedding |-> emb, instruct_text |-> instr,
     prompt_text |-> ptext, prompt_speech_16k |-> pwav]
NoFunc == InferFunc("none", NoneVal, <<>>, NoneVal, NoWav)
RaiseFunc == InferFunc("raise", NoneVal, <<>>, NoneVal, NoWav)

\* lines 276-293: the strategy bound for the resolved conditioning.
Select_mut(seg0, emb, ref) ==
    IF ref.wav # NoWav /\ ref.text # NoneVal /\ ref.text # ""
    THEN InferFunc("zero_shot", NoneVal, <<>>, ref.text, ref.wav)
    ELSE IF emb # NoneVal
    THEN InferFunc("instruct", emb, InstructText(seg0), NoneVal, NoWav)
    ELSE RaiseFunc
Select(seg0, emb, ref) ==
    IF emb # NoneVal
    THEN InferFunc("instruct", emb, InstructText(seg0), NoneVal, NoWav)
    ELSE IF ref.wav # NoWav /\ ref.text # NoneVal /\ ref.text # ""
    THEN InferFunc("zero_shot", NoneVal, <<>>, ref.text, ref.wav)
    ELSE RaiseFunc

\* lines 271-293: resolve the conditioning of segment[0] and bind the strategy.
Bind(seg0) ==
    Select(seg0, spk_to_embedding(seg0.spk), spk_to_ref_wav(seg0.spk, seg0.emotion))

\* lines 180 and 194: the capability guards of the directly exposed modes.
GuardFires_mut(mode, instruct) == FALSE
GuardFires(mode, instruct) ==
    \/ mode = "cross_lingual" /\ instruct = TRUE
    \/ mode = "instruct" /\ instruct = FALSE

\* The engine: CosyVoiceModel.inference on the front-end's input, an unknown
\* function of the method, its arguments, the text and the generator state.
Engine(f, text, r) == [func |-> f, text |-> text, rng |-> r]

\* line 306: the tensor as a float numpy array.
ToNumpy(out) == <<"ndarray", out>>

\* A value the cache may hold for the batch when the process starts: a list
\* of one pair stored by an earlier process.
Earlier == <<<<sr, ToNumpy(Engine(NoFunc, TextOf(0), 0))>>>>

VARIABLES
    clsModel,       \* CosyVoiceTTSModel.model      (class attribute)
    clsFrontend,    \* CosyVoiceTTSModel.frontend   (class attribute)
    lock,           \* CosyVoiceTTSModel.load_lock: Free, or the thread holding it
    constructed,    \* the orchestrator instances that exist
    selfModel,      \* self.model of each instance
    selfFrontend,   \* self.frontend of each instance
    feInstruct,     \* the instruct flag of each front-end object
    nextId,         \* front-end / model objects constructed so far
    pc,             \* each thread's position
    inst,           \* the instance (self) of each thread's current call
    caller,         \* each thread's outermost call: "top" (load / unload), "batch", "direct"
    locFrontend,    \* load(): the local variable frontend
    locModel,       \* load(): the local variable model
    \* history of the lifecycle
    lastRet,        \* the handle the last load() returned, if no unload() began since
    epochRets,      \* handles returned by load() since the last completed unload()
    epochInits,     \* initializations completed since the last completed unload()
    epochLoads,     \* load() calls returned since then: 0, 1, or 2 for two or more
    transfers,      \* device transfers done so far (lines 113-115)
    \* the synthesis call in flight (one at a time) and its collaborators
    batch,          \* segments: the input batch
    cache,          \* the cache entry of (segments, context): {} or {value}
    stop,           \* context.stop
    probe,          \* cached: what get_cache returned
    infer,          \* infer_func
    results,        \* results
    pending,        \* result, or the exception in flight, of the inference call
    rng,            \* the state of the random generator
    saved,          \* the generator state SeedContext keeps for its exit
    yielded,        \* what the generator yielded last: {} or {list}
    retval,         \* what generate_batch returned: {} or {list}
    direct,         \* a directly invoked mode: its method, texts left, flag read
    \* history of the call in flight
    err,            \* where the call raised: "" if it has not
    yields,         \* values yielded
    loads,          \* load() calls made
    calls,          \* engine inference calls made
    kinds,          \* inference methods invoked
    writes,         \* set_cache calls made
    polls,          \* reads of context.stop
    stopAt,         \* results held when context.stop became true (-1: not yet)
    stopMid,        \* whether a segment's iteration was under way at that time
    cache0,         \* the cache entry when the call began
    rng0            \* the generator state when the call began

clsVars == <<clsModel, clsFrontend>>
selfVars == <<constructed, selfModel, selfFrontend>>
objVars == <<feInstruct, nextId>>
locVars == <<locFrontend, locModel>>
histVars == <<lastRet, epochRets, epochInits, epochLoads, transfers>>
lifeVars == <<clsVars, lock, selfVars, objVars, locVars, histVars>>
thrVars == <<pc, inst, caller>>

callVars == <<stop, probe, infer, results, pending, saved, yielded, retval,
              direct>>
callHist == <<err, yields, loads, calls, kinds, writes, polls, stopAt, stopMid,
              cache0, rng0>>
runVars == <<batch, cache, rng, callVars, callHist>>

vars == <<lifeVars, thrVars, runVars>>

NoHandle == <<None, None>>

\* ------------------------------------------------------------- lifecycle

\* line 74: is_loaded() tests the class attribute model only.
is_loaded == clsModel # None

\* line 83: the test of load() under the lock.
LoadCheck_mut == FALSE
LoadCheck == clsModel # None

\* line 129: the test of unload() under the lock.
UnloadCheck == clsModel = None

\* line 82 / 128: `with self.load_lock` blocks until the lock is free.
LockFree_mut == TRUE
LockFree == lock = Free

\* line 100: load() always builds the front-end with instruct=True.
LoadInstructArg == TRUE

\* The positions of load() and unload() between taking and releasing the lock.
LoadPcs == {"ld_init", "ld_model", "ld_pub1", "ld_pub2"}
UnloadPcs == {"ul_self", "ul_cls1", "ul_cls2"}
CriticalPcs == LoadPcs \cup UnloadPcs

\* One more load() has returned.
CountLoad == epochLoads' = IF epochLoads = 0 THEN 1 ELSE 2

\* Thread t's position, instance and locals once its load() has returned (ok)
\* or raised: back in generate_batch_stream at line 246, or out of the call.
LeaveLoad(t, ok) ==
    /\ locFrontend' = [locFrontend EXCEPT ![t] = None]
    /\ locModel' = [locModel EXCEPT ![t] = None]
    /\ IF caller[t] = "batch"
       THEN /\ pc' = [pc EXCEPT ![t] = IF ok THEN "g_spk" ELSE "g_loadfail"]
            /\ UNCHANGED <<inst, caller>>
       ELSE /\ pc' = [pc EXCEPT ![t] = "idle"]
            /\ inst' = [inst EXCEPT ![t] = NoInst]
            /\ UNCHANGED caller

\* lines 50-71: __init__ copies the class attributes as they are now.
Construct(i) ==
    /\ i \notin constructed
    /\ constructed' = constructed \cup {i}
    /\ selfModel' = [selfModel EXCEPT ![i] = clsModel]
    /\ selfFrontend' = [selfFrontend EXCEPT ![i] = clsFrontend]
    /\ UNCHANGED <<clsVars, lock, objVars, locVars, histVars, thrVars>>

\* A caller thread calls load() on an instance (line 79).
CallLoad(t, i) ==
    /\ pc[t] = "idle"
    /\ i \in constructed
    /\ pc' = [pc EXCEPT ![t] = "ld_wait"]
    /\ inst' = [inst EXCEPT ![t] = i]
    /\ caller' = [caller EXCEPT ![t] = "top"]
    /\ UNCHANGED lifeVars

\* lines 82-84: take the lock; an already loaded singleton is returned as it is
\* and the lock released on the way out.
LoadHit(t) ==
    /\ pc[t] = "ld_wait"
    /\ LockFree
    /\ LoadCheck
    /\ lastRet' = <<clsModel, clsFrontend>>
    /\ epochRets' = epochRets \cup {<<clsModel, clsFrontend>>}
    /\ CountLoad
    /\ LeaveLoad(t, TRUE)
    /\ UNCHANGED <<clsVars, lock, selfVars, objVars, epochInits, transfers>>

\* lines 82-89: take the lock; nothing is loaded, so the initialization starts.
LoadMiss(t) ==
    /\ pc[t] = "ld_wait"
    /\ LockFree
    /\ ~LoadCheck
    /\ nextId < MaxInits
    /\ lock' = t
    /\ pc' = [pc EXCEPT ![t] = "ld_init"]
    /\ UNCHANGED <<clsVars, selfVars, objVars, locVars, histVars, inst, caller>>

\* lines 91-104: read cosyvoice.yaml, build the front-end and bind it to self.
LoadFrontend(t) ==
    /\ pc[t] = "ld_init"
    /\ nextId' = nextId + 1
    /\ feInstruct' = [feInstruct EXCEPT ![nextId + 1] = LoadInstructArg]
    /\ locFrontend' = [locFrontend EXCEPT ![t] = nextId + 1]
    /\ selfFrontend' = [selfFrontend EXCEPT ![inst[t]] = nextId + 1]
    /\ pc' = [pc EXCEPT ![t] = "ld_model"]
    /\ UNCHANGED <<clsVars, lock, constructed, selfModel, locModel, histVars,
                   inst, caller>>

\* lines 106-117: build the engine, load the three weight files, move llm,
\* flow and hift to the device, then self.model = model.
LoadModel(t) ==
    /\ pc[t] = "ld_model"
    /\ locModel' = [locModel EXCEPT ![t] = locFrontend[t]]
    /\ transfers' = transfers + 1
    /\ selfModel' = [selfModel EXCEPT ![inst[t]] = locFrontend[t]]
    /\ pc' = [pc EXCEPT ![t] = "ld_pub1"]
    /\ UNCHANGED <<clsVars, lock, constructed, selfFrontend, objVars, locFrontend,
                   lastRet, epochRets, epochInits, epochLoads, inst, caller>>

\* lines 119-122: torch_gc, then publish the model to the class.
LoadPublishModel(t) ==
    /\ pc[t] = "ld_pub1"
    /\ clsModel' = locModel[t]
    /\ pc' = [pc EXCEPT ![t] = "ld_pub2"]
    /\ UNCHANGED <<clsFrontend, lock, selfVars, objVars, locVars, histVars,
                   inst, caller>>

\* lines 123-125: publish the front-end, return the pair, release the lock.
LoadPublishFrontend_mut(t) ==
    /\ pc[t] = "ld_pub2"
    /\ lastRet' = <<locModel[t], locFrontend[t]>>
    /\ epochRets' = epochRets \cup {<<locModel[t], locFrontend[t]>>}
    /\ epochInits' = epochInits + 1
    /\ CountLoad
    /\ lock' = Free
    /\ LeaveLoad(t, TRUE)
    /\ UNCHANGED <<clsVars, selfVars, objVars, transfers>>
LoadPublishFrontend(t) ==
    /\ pc[t] = "ld_pub2"
    /\ clsFrontend' = locFrontend[t]
    /\ lastRet' = <<locModel[t], locFrontend[t]>>
    /\ epochRets' = epochRets \cup {<<locModel[t], locFrontend[t]>>}
    /\ epochInits' = epochInits + 1
    /\ CountLoad
    /\ lock' = Free
    /\ LeaveLoad(t, TRUE)
    /\ UNCHANGED <<clsModel, selfVars, objVars, transfers>>

\* lines 91-115: the config read or the front-end's construction raises (at
\* ld_init), or the engine's construction, the weight load or the device
\* transfer does (at ld_model); the with block releases the lock and the error
\* leaves load().
LoadFail_mut(t) ==
    /\ pc[t] \in {"ld_init", "ld_model"}
    /\ LeaveLoad(t, FALSE)
    /\ UNCHANGED <<clsVars, lock, selfVars, objVars, histVars>>
LoadFail(t) ==
    /\ pc[t] \in {"ld_init", "ld_model"}
    /\ lock' = Free
    /\ LeaveLoad(t, FALSE)
    /\ UNCHANGED <<clsVars, selfVars, objVars, histVars>>

\* A caller thread calls unload() on an instance (line 127).
CallUnload(t, i) ==
    /\ pc[t] = "idle"
    /\ i \in constructed
    /\ pc' = [pc EXCEPT ![t] = "ul_wait"]
    /\ inst' = [inst EXCEPT ![t] = i]
    /\ caller' = [caller EXCEPT ![t] = "top"]
    /\ UNCHANGED lifeVars

\* lines 128-130: take the lock; nothing is loaded: return, releasing the lock.
UnloadNoop(t) ==
    /\ pc[t] = "ul_wait"
    /\ LockFree
    /\ UnloadCheck
    /\ lastRet' = NoHandle
    /\ epochRets' = {}
    /\ epochInits' = 0
    /\ epochLoads' = 0
    /\ pc' = [pc EXCEPT ![t] = "idle"]
    /\ inst' = [inst EXCEPT ![t] = NoInst]
    /\ UNCHANGED <<clsVars, lock, selfVars, objVars, locVars, transfers, caller>>

\* lines 128-130: take the lock; a handle is loaded, so it is dropped.
UnloadStart(t) ==
    /\ pc[t] = "ul_wait"
    /\ LockFree
    /\ ~UnloadCheck
    /\ lock' = t
    /\ lastRet' = NoHandle
    /\ pc' = [pc EXCEPT ![t] = "ul_self"]
    /\ UNCHANGED <<clsVars, selfVars, objVars, locVars, epochRets, epochInits,
                   epochLoads, transfers, inst, caller>>

\* lines 131-134: the instance's own model and frontend become None.
UnloadSelf(t) ==
    /\ pc[t] = "ul_self"
    /\ selfModel' = [selfModel EXCEPT ![inst[t]] = None]
    /\ selfFrontend' = [selfFrontend EXCEPT ![inst[t]] = None]
    /\ pc' = [pc EXCEPT ![t] = "ul_cls1"]
    /\ UNCHANGED <<clsVars, lock, constructed, objVars, locVars, histVars,
                   inst, caller>>

\* line 135: del CosyVoiceTTSModel.model (None again at line 137).
UnloadClsModel(t) ==
    /\ pc[t] = "ul_cls1"
    /\ clsModel' = None
    /\ pc' = [pc EXCEPT ![t] = "ul_cls2"]
    /\ UNCHANGED <<clsFrontend, lock, selfVars, objVars, locVars, histVars,
                   inst, caller>>

\* lines 136-139: del CosyVoiceTTSModel.frontend (None again at line 138),
\* torch_gc, and the lock is released.
UnloadClsFrontend(t) ==
    /\ pc[t] = "ul_cls2"
    /\ clsFrontend' = None
    /\ lock' = Free
    /\ epochRets' = {}
    /\ epochInits' = 0
    /\ epochLoads' = 0
    /\ pc' = [pc EXCEPT ![t] = "idle"]
    /\ inst' = [inst EXCEPT ![t] = NoInst]
    /\ UNCHANGED <<clsModel, selfVars, objVars, locVars, lastRet, transfers, caller>>

\* ------------------------------------------------------- batch synthesis

\* SeedContext(seed).__enter__: the generator state the seed selects.
Seeded(seed) == seed % Cardinality(RngStates)

\* One inference call's use of the generator.
Advance(r) == (r + 1) % Cardinality(RngStates)

\* lines 304-305: infer_func runs inside the with block, so the engine draws
\* from the generator as SeedContext has seeded it.
EngineRng_mut == saved
EngineRng == rng

\* line 240: `cached is not None`.
CacheHit_mut(c) == FALSE
CacheHit(c) == c # {}

\* line 301: `if context.stop`.
StopRequested_mut == FALSE
StopRequested == stop

\* line 242: the generator returns after yielding the cached value.
AfterHitYield_mut == "ld_wait"
AfterHitYield == "g_done"

\* lines 304-305: no handler surrounds the inference call, so its exception
\* leaves the loop and the generator.
AfterInferError_mut == "g_write"
AfterInferError == "g_raise"

\* lines 300, 305: the text handed to infer_func in the j-th iteration is
\* that of the j-th segment.
SegText_mut(b, j) == b[1].text
SegText(b, j) == b[j].text

\* No inference call is under way in the loop.
NoPending == <<"none", <<>>>>

\* No synthesis call is in flight.
NoCall == \A u \in Threads : caller[u] = "top"

\* The call in flight before its first step.
FreshCall ==
    /\ stop = FALSE
    /\ probe = {}
    /\ infer = NoFunc
    /\ results = <<>>
    /\ pending = NoPending
    /\ saved = 0
    /\ yielded = {}
    /\ retval = {}
    /\ direct = [method |-> "none", left |-> 0, flag |-> {}]
    /\ err = ""
    /\ yields = 0
    /\ loads = 0
    /\ calls = 0
    /\ kinds = {}
    /\ writes = 0
    /\ polls = 0
    /\ stopAt = -1
    /\ stopMid = FALSE
    /\ cache0 = {}
    /\ rng0 = 0

\* A caller thread calls generate_batch (line 231) or iterates
\* generate_batch_stream (line 236) on an instance: the two differ only in
\* what follows the first yield (ReturnFirst, or ResumeHit / ResumeMiss). The
\* random generator is in whatever state earlier code left it.
StartRun(t, i) ==
    /\ pc[t] = "idle"
    /\ NoCall
    /\ i \in constructed
    /\ pc' = [pc EXCEPT ![t] = "g_probe"]
    /\ inst' = [inst EXCEPT ![t] = i]
    /\ caller' = [caller EXCEPT ![t] = "batch"]
    /\ rng' \in RngStates
    /\ rng0' = rng'
    /\ cache0' = cache
    /\ UNCHANGED <<lifeVars, batch, cache, stop, probe, infer, results, pending, saved,
                   yielded, retval, direct, err, yields, loads, calls, kinds, writes,
                   polls, stopAt, stopMid>>

\* lines 239-241: the cache holds a value: yield it.
ProbeHit(t) ==
    /\ pc[t] = "g_probe"
    /\ CacheHit(cache)
    /\ probe' = cache
    /\ yielded' = cache
    /\ yields' = yields + 1
    /\ pc' = [pc EXCEPT ![t] = "g_hit"]
    /\ UNCHANGED <<lifeVars, inst, caller, batch, cache, rng, stop, infer, results,
                   pending, saved, retval, direct, err, loads, calls, kinds, writes,
                   polls, stopAt, stopMid, cache0, rng0>>

\* lines 239-246: the cache holds nothing: call self.load().
ProbeMiss(t) ==
    /\ pc[t] = "g_probe"
    /\ ~CacheHit(cache)
    /\ probe' = cache
    /\ loads' = loads + 1
    /\ pc' = [pc EXCEPT ![t] = "ld_wait"]
    /\ UNCHANGED <<lifeVars, inst, caller, batch, cache, rng, stop, infer, results,
                   pending, saved, yielded, retval, direct, err, yields, calls, kinds,
                   writes, polls, stopAt, stopMid, cache0, rng0>>

\* line 246: load() raised; the error leaves the generator.
LoadRaised(t) ==
    /\ pc[t] = "g_loadfail"
    /\ err' = "load"
    /\ pc' = [pc EXCEPT ![t] = "g_raise"]
    /\ UNCHANGED <<lifeVars, inst, caller, batch, cache, rng, callVars, yields, loads,
                   calls, kinds, writes, polls, stopAt, stopMid, cache0, rng0>>

\* lines 248-253: segment[0] has no speaker.
NoSpeaker(t) ==
    /\ pc[t] = "g_spk"
    /\ ~batch[1].spk.present
    /\ err' = "spk"
    /\ pc' = [pc EXCEPT ![t] = "g_raise"]
    /\ UNCHANGED <<lifeVars, inst, caller, batch, cache, rng, callVars, yields, loads,
                   calls, kinds, writes, polls, stopAt, stopMid, cache0, rng0>>

\* lines 248-297: the conditioning of segment[0] is resolved and a strategy
\* bound, or neither an embedding nor a reference with transcript resolves.
Resolve(t) ==
    /\ pc[t] = "g_spk"
    /\ batch[1].spk.present
    /\ LET f == Bind(batch[1])
       IN  IF f.kind = "raise"
           THEN /\ err' = "cond"
                /\ pc' = [pc EXCEPT ![t] = "g_raise"]
                /\ UNCHANGED infer
           ELSE /\ infer' = f
                /\ pc' = [pc EXCEPT ![t] = "g_poll"]
                /\ UNCHANGED err
    /\ UNCHANGED <<lifeVars, inst, caller, batch, cache, rng, stop, probe, results,
                   pending, saved, yielded, retval, direct, yields, loads, calls, kinds,
                   writes, polls, stopAt, stopMid, cache0, rng0>>

\* line 300: every segment has been iterated.
LoopEnd(t) ==
    /\ pc[t] = "g_poll"
    /\ Len(results) = Len(batch)
    /\ pc' = [pc EXCEPT ![t] = "g_write"]
    /\ UNCHANGED <<lifeVars, inst, caller, runVars>>

\* lines 300-302: the flag is set: break.
PollStop(t) ==
    /\ pc[t] = "g_poll"
    /\ Len(results) < Len(batch)
    /\ StopRequested
    /\ polls' = polls + 1
    /\ pc' = [pc EXCEPT ![t] = "g_write"]
    /\ UNCHANGED <<lifeVars, inst, caller, batch, cache, rng, callVars, err, yields,
                   loads, calls, kinds, writes, stopAt, stopMid, cache0, rng0>>

\* lines 300-304: the flag is not set: enter SeedContext(infer_seed), which
\* keeps the generator's state and seeds it.
PollGo(t) ==
    /\ pc[t] = "g_poll"
    /\ Len(results) < Len(batch)
    /\ ~StopRequested
    /\ polls' = polls + 1
    /\ saved' = rng
    /\ rng' = Seeded(batch[1].infer_seed)
    /\ pc' = [pc EXCEPT ![t] = "g_infer"]
    /\ UNCHANGED <<lifeVars, inst, caller, batch, cache, stop, probe, infer,
                   results, pending, yielded, retval, direct, err, yields, loads, calls,
                   kinds, writes, stopAt, stopMid, cache0, rng0>>

\* The instance's own handle, as the inference methods read it (self.frontend
\* at lines 170 / 194 / 200, self.model at lines 173 / 203), is incomplete.
HandleAbsent(i) == selfFrontend[i] = None \/ selfModel[i] = None

\* lines 305, 165-175, 191-205: the bound method raises before it reaches the
\* engine: a handle is None, or the instruct guard fires.
InferGuardRaise(t) ==
    /\ pc[t] = "g_infer"
    /\ \/ HandleAbsent(inst[t])
       \/ /\ selfFrontend[inst[t]] # None
          /\ GuardFires(infer.kind, feInstruct[selfFrontend[inst[t]]])
    /\ kinds' = kinds \cup {infer.kind}
    /\ pending' = <<"raised", <<>>>>
    /\ pc' = [pc EXCEPT ![t] = "g_exit"]
    /\ UNCHANGED <<lifeVars, inst, caller, batch, cache, rng, stop, probe, infer,
                   results, saved, yielded, retval, direct, err, yields, loads, calls,
                   writes, polls, stopAt, stopMid, cache0, rng0>>

\* lines 305, 173 / 203: the engine is invoked on the segment's text and raises.
InferEngineRaise(t) ==
    /\ pc[t] = "g_infer"
    /\ ~HandleAbsent(inst[t])
    /\ ~GuardFires(infer.kind, feInstruct[selfFrontend[inst[t]]])
    /\ kinds' = kinds \cup {infer.kind}
    /\ calls' = calls + 1
    /\ pending' = <<"raised", <<>>>>
    /\ pc' = [pc EXCEPT ![t] = "g_exit"]
    /\ UNCHANGED <<lifeVars, inst, caller, batch, cache, rng, stop, probe, infer,
                   results, saved, yielded, retval, direct, err, yields, loads,
                   writes, polls, stopAt, stopMid, cache0, rng0>>

\* lines 305, 173 / 203: the engine synthesizes the segment's text.
InferOk(t) ==
    /\ pc[t] = "g_infer"
    /\ ~HandleAbsent(inst[t])
    /\ ~GuardFires(infer.kind, feInstruct[selfFrontend[inst[t]]])
    /\ kinds' = kinds \cup {infer.kind}
    /\ calls' = calls + 1
    /\ pending' = <<"ok", Engine(infer, SegText(batch, Len(results) + 1), EngineRng)>>
    /\ rng' = Advance(rng)
    /\ pc' = [pc EXCEPT ![t] = "g_exit"]
    /\ UNCHANGED <<lifeVars, inst, caller, batch, cache, stop, probe, infer,
                   results, saved, yielded, retval, direct, err, yields, loads,
                   writes, polls, stopAt, stopMid, cache0, rng0>>

\* lines 304-307: SeedContext.__exit__ restores the generator; the waveform is
\* appended with the output rate.
ExitOk(t) ==
    /\ pc[t] = "g_exit"
    /\ pending[1] = "ok"
    /\ rng' = saved
    /\ results' = Append(results, <<sr, ToNumpy(pending[2])>>)
    /\ pending' = NoPending
    /\ pc' = [pc EXCEPT ![t] = "g_poll"]
    /\ UNCHANGED <<lifeVars, inst, caller, batch, cache, stop, probe, infer,
                   saved, yielded, retval, direct, callHist>>

\* line 304: SeedContext.__exit__ restores the generator; the exception goes on.
ExitRaise(t) ==
    /\ pc[t] = "g_exit"
    /\ pending[1] = "raised"
    /\ rng' = saved
    /\ err' = "infer"
    /\ pending' = NoPending
    /\ pc' = [pc EXCEPT ![t] = AfterInferError]
    /\ UNCHANGED <<lifeVars, inst, caller, batch, cache, stop, probe, infer,
                   results, saved, yielded, retval, direct, yields, loads, calls, kinds,
                   writes, polls, stopAt, stopMid, cache0, rng0>>

\* lines 309-310: the list is written to the cache and yielded.
WriteYield_mut(t) ==
    /\ pc[t] = "g_write"
    /\ IF Len(results) = Len(batch)
       THEN cache' = {results} /\ writes' = writes + 1
       ELSE UNCHANGED <<cache, writes>>
    /\ yielded' = {results}
    /\ yields' = yields + 1
    /\ pc' = [pc EXCEPT ![t] = "g_miss"]
    /\ UNCHANGED <<lifeVars, inst, caller, batch, rng, stop, probe, infer, results,
                   pending, saved, retval, direct, err, loads, calls, kinds, polls,
                   stopAt, stopMid, cache0, rng0>>
WriteYield(t) ==
    /\ pc[t] = "g_write"
    /\ cache' = {results}
    /\ writes' = writes + 1
    /\ yielded' = {results}
    /\ yields' = yields + 1
    /\ pc' = [pc EXCEPT ![t] = "g_miss"]
    /\ UNCHANGED <<lifeVars, inst, caller, batch, rng, stop, probe, infer, results,
                   pending, saved, retval, direct, err, loads, calls, kinds, polls,
                   stopAt, stopMid, cache0, rng0>>

\* line 234: next() hands generate_batch the first value yielded, which it
\* returns; the generator is not resumed.
ReturnFirst(t) ==
    /\ pc[t] \in {"g_hit", "g_miss"}
    /\ retval' = yielded
    /\ pc' = [pc EXCEPT ![t] = "g_done"]
    /\ UNCHANGED <<lifeVars, inst, caller, batch, cache, rng, stop, probe, infer,
                   results, pending, saved, yielded, direct, callHist>>

\* lines 241-242: the consumer of the stream asks for the next value.
ResumeHit(t) ==
    /\ pc[t] = "g_hit"
    /\ pc' = [pc EXCEPT ![t] = AfterHitYield]
    /\ UNCHANGED <<lifeVars, inst, caller, runVars>>

\* line 310: the consumer of the stream asks for the next value; the
\* generator's body ends.
ResumeMiss(t) ==
    /\ pc[t] = "g_miss"
    /\ pc' = [pc EXCEPT ![t] = "g_done"]
    /\ UNCHANGED <<lifeVars, inst, caller, runVars>>

\* The pipeline sets context.stop while the call is in flight.
SetStop ==
    /\ ~stop
    /\ \E t \in Threads :
          /\ caller[t] = "batch"
          /\ pc[t] \notin {"g_done", "g_raise"}
          /\ stopMid' = (pc[t] \in {"g_infer", "g_exit"})
    /\ stop' = TRUE
    /\ stopAt' = Len(results)
    /\ UNCHANGED <<lifeVars, thrVars, batch, cache, rng, probe, infer, results,
                   pending, saved, yielded, retval, direct, err, yields, loads, calls,
                   kinds, writes, polls, cache0, rng0>>

\* The call is over: its value or its exception is with the caller.
Finish(t) ==
    /\ pc[t] \in {"g_done", "g_raise"}
    /\ pc' = [pc EXCEPT ![t] = "idle"]
    /\ inst' = [inst EXCEPT ![t] = NoInst]
    /\ caller' = [caller EXCEPT ![t] = "top"]
    /\ stop' = FALSE
    /\ probe' = {}
    /\ infer' = NoFunc
    /\ results' = <<>>
    /\ pending' = NoPending
    /\ saved' = 0
    /\ yielded' = {}
    /\ retval' = {}
    /\ direct' = [method |-> "none", left |-> 0, flag |-> {}]
    /\ err' = ""
    /\ yields' = 0
    /\ loads' = 0
    /\ calls' = 0
    /\ kinds' = {}
    /\ writes' = 0
    /\ polls' = 0
    /\ stopAt' = -1
    /\ stopMid' = FALSE
    /\ cache0' = {}
    /\ rng0' = 0
    /\ UNCHANGED <<lifeVars, batch, cache, rng>>

\* ---------------------------------------------------- directly invoked modes

\* The inference methods a caller may invoke directly (lines 155-205).
Methods == {"sft", "zero_shot", "cross_lingual", "instruct"}

\* A caller thread invokes an inference method with n texts.
StartDirect(t, i, m, n) ==
    /\ pc[t] = "idle"
    /\ NoCall
    /\ i \in constructed
    /\ pc' = [pc EXCEPT ![t] = "d_guard"]
    /\ inst' = [inst EXCEPT ![t] = i]
    /\ caller' = [caller EXCEPT ![t] = "direct"]
    /\ direct' = [method |-> m, left |-> n, flag |-> {}]
    /\ UNCHANGED <<lifeVars, batch, cache, rng, stop, probe, infer, results,
                   pending, saved, yielded, retval, callHist>>

\* lines 180-183 and 194-197: the guard reads self.frontend.instruct and fires,
\* or self.frontend is None.
DirectGuardRaise(t) ==
    /\ pc[t] = "d_guard"
    /\ direct.method \in {"cross_lingual", "instruct"}
    /\ IF selfFrontend[inst[t]] = None
       THEN /\ err' = "absent"
            /\ UNCHANGED direct
       ELSE /\ GuardFires(direct.method, feInstruct[selfFrontend[inst[t]]])
            /\ direct' = [direct EXCEPT !.flag = {feInstruct[selfFrontend[inst[t]]]}]
            /\ err' = "mode"
    /\ pc' = [pc EXCEPT ![t] = "g_raise"]
    /\ UNCHANGED <<lifeVars, inst, caller, batch, cache, rng, stop, probe, infer,
                   results, pending, saved, yielded, retval, yields, loads, calls,
                   kinds, writes, polls, stopAt, stopMid, cache0, rng0>>

\* lines 180 and 194: the guard does not fire (sft and zero_shot have none).
DirectGuardPass(t) ==
    /\ pc[t] = "d_guard"
    /\ IF direct.method \in {"cross_lingual", "instruct"}
       THEN /\ selfFrontend[inst[t]] # None
            /\ ~GuardFires(direct.method, feInstruct[selfFrontend[inst[t]]])
            /\ direct' = [direct EXCEPT !.flag = {feInstruct[selfFrontend[inst[t]]]}]
       ELSE UNCHANGED direct
    /\ pc' = [pc EXCEPT ![t] = "d_loop"]
    /\ UNCHANGED <<lifeVars, inst, caller, batch, cache, rng, stop, probe, infer,
                   results, pending, saved, yielded, retval, callHist>>

\* The loop body of an inference method: the front-end prepares the text and
\* the engine synthesizes it.
DirectInfer(t) ==
    /\ pc[t] = "d_loop"
    /\ direct.left > 0
    /\ ~HandleAbsent(inst[t])
    /\ calls' = calls + 1
    /\ kinds' = kinds \cup {direct.method}
    /\ direct' = [direct EXCEPT !.left = @ - 1]
    /\ UNCHANGED <<lifeVars, thrVars, batch, cache, rng, stop, probe, infer,
                   results, pending, saved, yielded, retval, err, yields, loads, writes,
                   polls, stopAt, stopMid, cache0, rng0>>

\* The loop body raises: a handle is None, or the engine fails.
DirectRaise(t) ==
    /\ pc[t] = "d_loop"
    /\ direct.left > 0
    /\ IF HandleAbsent(inst[t])
       THEN err' = "absent" /\ UNCHANGED calls
       ELSE err' = "infer" /\ calls' = calls + 1
    /\ pc' = [pc EXCEPT ![t] = "g_raise"]
    /\ UNCHANGED <<lifeVars, inst, caller, batch, cache, rng, callVars, yields, loads,
                   kinds, writes, polls, stopAt, stopMid, cache0, rng0>>

\* The texts are exhausted: the method returns the concatenated speech.
DirectEnd(t) ==
    /\ pc[t] = "d_loop"
    /\ direct.left = 0
    /\ pc' = [pc EXCEPT ![t] = "g_done"]
    /\ UNCHANGED <<lifeVars, inst, caller, runVars>>

\* Nothing is loaded; the instances in c exist.
InitUnloaded(c) ==
    /\ clsModel = None
    /\ clsFrontend = None
    /\ lock = Free
    /\ constructed = c
    /\ selfModel = [i \in Insts |-> None]
    /\ selfFrontend = [i \in Insts |-> None]
    /\ feInstruct = [h \in 1..MaxInits |-> LoadInstructArg]
    /\ nextId = 0
    /\ locFrontend = [t \in Threads |-> None]
    /\ locModel = [t \in Threads |-> None]
    /\ lastRet = NoHandle
    /\ epochRets = {}
    /\ epochInits = 0
    /\ epochLoads = 0
    /\ transfers = 0

InitThreads ==
    /\ pc = [t \in Threads |-> "idle"]
    /\ inst = [t \in Threads |-> NoInst]
    /\ caller = [t \in Threads |-> "top"]

\* The inputs of the synthesis calls: a batch, and a cache that holds nothing
\* or an earlier value for it.
InitRun(bs) ==
    /\ batch \in bs
    /\ cache \in {{}, {Earlier}}
    /\ rng = 0
    /\ FreshCall

\* The calls of load() and unload() by the threads in T.
LifeCalls(T) ==
    \/ \E t \in T, i \in Insts : CallLoad(t, i)
    \/ \E t \in T, i \in Insts : CallUnload(t, i)

\* The steps of load() and unload().
LifeSteps ==
    \/ \E t \in Threads : LoadHit(t)
    \/ \E t \in Threads : LoadMiss(t)
    \/ \E t \in Threads : LoadFrontend(t)
    \/ \E t \in Threads : LoadModel(t)
    \/ \E t \in Threads : LoadPublishModel(t)
    \/ \E t \in Threads : LoadPublishFrontend(t)
    \/ \E t \in Threads : LoadFail(t)
    \/ \E t \in Threads : UnloadNoop(t)
    \/ \E t \in Threads : UnloadStart(t)
    \/ \E t \in Threads : UnloadSelf(t)
    \/ \E t \in Threads : UnloadClsModel(t)
    \/ \E t \in Threads : UnloadClsFrontend(t)

\* The steps of generate_batch / generate_batch_stream.
Synthesis ==
    \/ \E t \in Threads : ProbeHit(t)
    \/ \E t \in Threads : ProbeMiss(t)
    \/ \E t \in Threads : LoadRaised(t)
    \/ \E t \in Threads : NoSpeaker(t)
    \/ \E t \in Threads : Resolve(t)
    \/ \E t \in Threads : LoopEnd(t)
    \/ \E t \in Threads : PollStop(t)
    \/ \E t \in Threads : PollGo(t)
    \/ \E t \in Threads : InferGuardRaise(t)
    \/ \E t \in Threads : InferEngineRaise(t)
    \/ \E t \in Threads : InferOk(t)
    \/ \E t \in Threads : ExitOk(t)
    \/ \E t \in Threads : ExitRaise(t)
    \/ \E t \in Threads : WriteYield(t)
    \/ \E t \in Threads : ReturnFirst(t)
    \/ \E t \in Threads : ResumeHit(t)
    \/ \E t \in Threads : ResumeMiss(t)
    \/ SetStop
    \/ \E t \in Threads : Finish(t)

\* The steps of a directly invoked inference method.
Direct ==
    \/ \E t \in Threads : DirectGuardRaise(t)
    \/ \E t \in Threads : DirectGuardPass(t)
    \/ \E t \in Threads : DirectInfer(t)
    \/ \E t \in Threads : DirectRaise(t)
    \/ \E t \in Threads : DirectEnd(t)

\* ------------------------------------------------------------------ claims

\* Thread t's load() returns in this step.
LoadReturns(t) ==
    /\ pc[t] \in {"ld_wait", "ld_pub2"}
    /\ pc'[t] \in {"idle", "g_spk"}

\* C1: a load() that returns after another load() has returned, with no
\* unload() begun in between, returns the handle the earlier one returned and
\* changes nothing: no object is constructed, no device transfer is done, and
\* neither the class attributes nor any instance's attributes change.
C1_SecondLoadSameHandle ==
    [][\A t \in Threads :
          (LoadReturns(t) /\ lastRet # NoHandle) =>
              /\ lastRet' = lastRet
              /\ UNCHANGED <<clsVars, selfVars, objVars, epochInits, transfers>>]_vars

\* C1 witness: two load() calls have returned since the last unload(), after
\* one initialization and one device transfer.
C1_Witness ==
    /\ epochLoads = 2
    /\ epochInits = 1
    /\ transfers = 1
    /\ lastRet = <<1, 1>>

\* C2: at most one thread is between taking and releasing the lock, the
\* thread that is holds the lock, at most one initialization completes between
\* two completed unload() calls, and all the load() calls that return between
\* them return one and the same handle.
C2_OneTransitionOneInit ==
    /\ Cardinality({t \in Threads : pc[t] \in CriticalPcs}) <= 1
    /\ \A t \in Threads : pc[t] \in CriticalPcs => lock = t
    /\ epochInits <= 1
    /\ Cardinality(epochRets) <= 1

\* C2 witness: one thread waits for the lock while another is initializing on
\* a different instance, after an earlier unload().
C2_Witness ==
    \E t, u \in Threads :
        /\ t # u
        /\ pc[t] \in LoadPcs
        /\ pc[u] = "ld_wait"
        /\ inst[t] # inst[u]
        /\ nextId >= 1

\* A synthesis call is in flight with its runner at position p.
RunAt(p) == \E t \in Threads : caller[t] = "batch" /\ pc[t] = p

\* A synthesis call is in flight.
BatchRun == \E t \in Threads : caller[t] = "batch"

\* C3: a run whose probe found a value in the cache yields and returns that
\* value, the value the cache held when the run began, and does nothing else:
\* it calls neither load() nor the engine, reads no stop flag, writes nothing
\* to the cache, and its runner is only ever at the yield or at the end.
C3_HitSkipsEverything ==
    (BatchRun /\ probe # {}) =>
        /\ probe = cache0
        /\ yielded = probe
        /\ retval # {} => retval = probe
        /\ loads = 0
        /\ calls = 0
        /\ polls = 0
        /\ writes = 0
        /\ cache = cache0
        /\ RunAt("g_hit") \/ RunAt("g_done")

\* C3 witness: a run has returned the cached value while nothing is loaded.
C3_Witness ==
    /\ RunAt("g_done")
    /\ probe = {Earlier}
    /\ retval = probe
    /\ ~is_loaded
    /\ nextId = 0

\* C4: on a cache-miss run the flag has been read once per inference begun,
\* plus once if the loop ended by the break; the results are those of the
\* first segments in input order; and a run that ends without an error holds
\* every segment's result if the flag was never set, exactly the k results
\* held when the flag was set if no inference was under way at that time, and
\* k + 1 results if the (k+1)-th inference was under way.
C4_PollsAndCancellation ==
    (BatchRun /\ probe = {}) =>
        /\ RunAt("g_poll") => polls = Len(results)
        /\ (RunAt("g_infer") \/ RunAt("g_exit")) => polls = Len(results) + 1
        /\ Len(results) <= Len(batch)
        /\ \A j \in 1..Len(results) :
              /\ results[j][1] = sr
              /\ results[j][2][2].text = batch[j].text
        /\ ((RunAt("g_miss") \/ RunAt("g_done")) /\ err = "") =>
              /\ yielded = {results}
              /\ polls = Len(results) + (IF Len(results) < Len(batch) THEN 1 ELSE 0)
              /\ stopAt = -1 => Len(results) = Len(batch)
              /\ (stopAt >= 0 /\ ~stopMid) => Len(results) = stopAt
              /\ (stopAt >= 0 /\ stopMid) => Len(results) = stopAt + 1

\* C4 witness: the flag was set after the first of several segments, between
\* two inferences, and the run returned that one result after two polls.
C4_Witness ==
    /\ RunAt("g_done")
    /\ err = ""
    /\ Len(batch) >= 2
    /\ stopAt = 1
    /\ ~stopMid
    /\ Len(results) = 1
    /\ polls = 2
    /\ retval = {results}

\* C5: the strategy bound is Instruct whenever the speaker's embedding
\* resolves, whatever reference clips exist; ZeroShot only when no embedding
\* resolves and a reference waveform with non-empty transcript does; the run
\* raises only when neither resolves; no other method is ever bound or invoked.
C5_StrategyPrecedence ==
    BatchRun =>
        LET emb == spk_to_embedding(batch[1].spk)
            ref == spk_to_ref_wav(batch[1].spk, batch[1].emotion)
            refOk == ref.wav # NoWav /\ ref.text # NoneVal /\ ref.text # ""
        IN  /\ kinds \subseteq {"instruct", "zero_shot"}
            /\ infer.kind \in {"none", "instruct", "zero_shot"}
            /\ (infer # NoFunc /\ emb # NoneVal) =>
                  /\ infer.kind = "instruct"
                  /\ infer.spk_embedding = emb
            /\ infer.kind = "zero_shot" =>
                  /\ emb = NoneVal
                  /\ refOk
                  /\ infer.prompt_text = ref.text
                  /\ infer.prompt_speech_16k = ref.wav
            /\ err = "cond" => (emb = NoneVal /\ ~refOk)

\* C5 witness: a speaker with an embedding and a matching clip with transcript
\* has been synthesized by the Instruct method.
C5_Witness ==
    /\ BatchRun
    /\ batch[1].spk = SpkBoth
    /\ batch[1].emotion = "calm"
    /\ spk_to_ref_wav(SpkBoth, "calm").text = "hello"
    /\ infer.kind = "instruct"
    /\ kinds = {"instruct"}
    /\ calls >= 1

\* The speaker holds no token record with a non-empty embedding under any id.
NoEmbeddingToken(spk) ==
    \A id \in TokenIds : ~spk.tokens[id].present \/ spk.tokens[id].embedding = <<>>

\* Segment[0] has no usable conditioning: no speaker; or no embedding token
\* and no clip of the requested emotion that carries a transcript.
NoUsable(seg0) ==
    \/ ~seg0.spk.present
    \/ /\ NoEmbeddingToken(seg0.spk)
       /\ \A k \in 1..Len(seg0.spk.refs) :
             seg0.spk.refs[k].emotion = seg0.emotion => seg0.spk.refs[k].text = ""

C7_ErrorDiscardsResults ==
    BatchRun =>
        /\ err = "infer" =>
              /\ RunAt("g_raise")
              /\ yields = 0
              /\ yielded = {}
              /\ retval = {}
              /\ writes = 0
              /\ cache = cache0
        /\ ((RunAt("g_miss") \/ RunAt("g_done")) /\ probe = {}) =>
              /\ err = ""
              /\ writes = 1
              /\ yielded = {results}
              /\ cache = {results}

\* C7 witness: the inference of the second segment raised after the first
\* segment's result had been computed.
C7_Witness ==
    /\ RunAt("g_raise")
    /\ err = "infer"
    /\ Len(results) = 1
    /\ calls = 2
    /\ cache = {}

\* C8: a direct call of cross_lingual that read a true instruct flag, or of
\* instruct that read a false one, has raised the mode error without an engine
\* call; the mode error is raised in no other case.
C8_ModeGuards ==
    \A t \in Threads : caller[t] = "direct" =>
        LET clash == \/ direct.method = "cross_lingual" /\ direct.flag = {TRUE}
                     \/ direct.method = "instruct" /\ direct.flag = {FALSE}
        IN  /\ clash => (err = "mode" /\ calls = 0 /\ pc[t] = "g_raise")
            /\ err = "mode" => clash

\* C8 witness: cross_lingual was invoked on a front-end whose instruct flag is
\* true and raised before any engine call.
C8_Witness ==
    /\ \E t \in Threads : caller[t] = "direct" /\ pc[t] = "g_raise"
    /\ direct.method = "cross_lingual"
    /\ direct.flag = {TRUE}
    /\ err = "mode"
    /\ calls = 0

\* C9: every result of a cache-miss run is the engine's output for the bound
\* strategy, the segment's text and the generator state the batch seed
\* selects, whatever state the generator was in when the run began; and
\* outside the seeded scope the generator is in the state the run found.
C9_SeededDeterminism ==
    (BatchRun /\ probe = {}) =>
        /\ \A j \in 1..Len(results) :
              results[j] = <<sr, ToNumpy(Engine(Bind(batch[1]), batch[j].text,
                                                 Seeded(batch[1].infer_seed)))>>
        /\ (RunAt("g_infer") \/ RunAt("g_exit")) => saved = rng0
        /\ ~(RunAt("g_infer") \/ RunAt("g_exit")) => rng = rng0

\* C9 witness: a run that found the generator in another state than the one
\* its seed selects has synthesized two segments and left the generator as it
\* found it.
C9_Witness ==
    /\ RunAt("g_done")
    /\ err = ""
    /\ Len(results) = 2
    /\ rng0 # Seeded(batch[1].infer_seed)
    /\ rng = rng0

\* C10: a synthesis call yields at most once; when the generator has finished
\* without an error it has yielded once, the cached value on a hit and the
\* result list otherwise; and generate_batch returns the value yielded.
C10_ExactlyOneYield ==
    BatchRun =>
        /\ yields <= 1
        /\ (RunAt("g_hit") \/ RunAt("g_miss") \/ RunAt("g_done")) =>
              /\ yields = 1
              /\ yielded = (IF probe # {} THEN probe ELSE {results})
        /\ retval # {} => (RunAt("g_done") /\ retval = yielded)

\* C10 witness: the consumer of the stream took the one list of a run cut
\* short by the stop flag, asked for more, and the generator finished.
C10_Witness ==
    /\ RunAt("g_done")
    /\ probe = {}
    /\ retval = {}
    /\ yields = 1
    /\ stopAt = 0
    /\ yielded = {<<>>}

\* C11: when an instance's load() returns, the model and front-end the
\* instance uses for inference (self.model, self.frontend) are the singleton's
\* loaded model and front-end, and neither is absent.
C11_LoadedInstanceHoldsHandle ==
    [][\A t \in Threads :
          LoadReturns(t) =>
              /\ selfModel'[inst[t]] # None
              /\ selfFrontend'[inst[t]] # None
              /\ selfModel'[inst[t]] = clsModel'
              /\ selfFrontend'[inst[t]] = clsFrontend']_vars

\* Thread t's unload() of a loaded handle completes in this step.
UnloadCompletes(t) ==
    /\ pc[t] = "ul_cls2"
    /\ pc'[t] = "idle"

\* C12: when an unload() of a loaded handle completes, the singleton slot is
\* empty, is_loaded() is false, and no instance, the one unload() was called
\* on or any other, holds the model or front-end that was loaded.
C12_UnloadDropsAllReferences ==
    [][\A t \in Threads :
          UnloadCompletes(t) =>
              /\ clsModel' = None
              /\ clsFrontend' = None
              /\ ~is_loaded'
              /\ \A i \in constructed :
                    /\ selfModel'[i] # clsFrontend
                    /\ selfFrontend'[i] # clsFrontend]_vars

\* C13: once the ZeroShot method has been invoked, the prompt waveform bound
\* to it is the reference waveform after postprocess; and every synthesized
\* waveform is recorded as the engine gave it, without postprocess.
C13_PromptPostprocessed ==
    BatchRun =>
        /\ ("zero_shot" \in kinds) =>
              infer.prompt_speech_16k =
                  postprocess(spk_to_ref_wav(batch[1].spk, batch[1].emotion).wav)
        /\ \A j \in 1..Len(results) :
              results[j][2] = ToNumpy(Engine(infer, batch[j].text, results[j][2][2].rng))

\* The text after the tag: the emotion, else the secondary prompt, else the
\* empty string.
TagBase(seg0) ==
    IF seg0.emotion # "" THEN seg0.emotion
    ELSE IF seg0.prompt2 # "" THEN seg0.prompt2 ELSE ""

\* C14 as stated: the instruct text bound for Instruct is the base text after
\* a gendered tag, the female tag exactly when the gender string contains the
\* Latin marker or the Chinese marker anywhere.
C14_TagByContainment ==
    (BatchRun /\ infer.kind = "instruct") =>
        LET g == batch[1].spk.gender
        IN  infer.instruct_text =
                <<IF Contains(g, FemaleLatin) \/ Contains(g, FemaleHan)
                  THEN "female voice. " ELSE "male voice. ",
                  TagBase(batch[1])>>

\* C14 amended: the female tag exactly when the gender string is the Latin
\* marker or contains the Chinese marker anywhere.
C14_TagByEqualityOrHan ==
    (BatchRun /\ infer.kind = "instruct") =>
        LET g == batch[1].spk.gender
        IN  infer.instruct_text =
                <<IF g = <<FemaleLatin>> \/ Contains(g, FemaleHan)
                  THEN "female voice. " ELSE "male voice. ",
                  TagBase(batch[1])>>

\* C14 witness: a speaker whose gender string contains the Latin marker after
\* another word has been synthesized by Instruct under the male tag and the
\* empty base text.
C14_Witness ==
    /\ BatchRun
    /\ batch[1].spk = SpkYoung
    /\ Contains(batch[1].spk.gender, FemaleLatin)
    /\ infer.kind = "instruct"
    /\ infer.instruct_text = <<"male voice. ", "">>
    /\ calls >= 1

\* The ids of the token lookup in the order they are queried.
LookupIds == <<ModelId, AliasIds[1], AliasIds[2]>>

\* The earliest position of a set of lookup positions.
Earliest(K) == CHOOSE k \in K : \A j \in K : k <= j

\* The conditioning of segment[0] has been resolved.
Resolved == BatchRun /\ (infer # NoFunc \/ err = "cond")

\* C15 as stated: if a record with a non-empty embedding exists under any of
\* the three ids, the embedding resolved is the first vector of the earliest
\* such record, whatever records lie under earlier ids.
C15_FirstNonEmptyWins ==
    Resolved =>
        LET toks == batch[1].spk.tokens
            K == {k \in 1..3 : /\ toks[LookupIds[k]].present
                               /\ toks[LookupIds[k]].embedding # <<>>}
        IN  K # {} =>
                /\ infer.kind = "instruct"
                /\ infer.spk_embedding = toks[LookupIds[Earliest(K)]].embedding[1]

\* C15 amended: the earliest record that exists wins, whatever its embedding
\* holds: the embedding resolved is its first vector if it has one, and no
\* embedding resolves if it has none or if no record exists.
C15_FirstPresentWins ==
    Resolved =>
        LET toks == batch[1].spk.tokens
            K == {k \in 1..3 : toks[LookupIds[k]].present}
        IN  IF K # {} /\ toks[LookupIds[Earliest(K)]].embedding # <<>>
            THEN /\ infer.kind = "instruct"
                 /\ infer.spk_embedding = toks[LookupIds[Earliest(K)]].embedding[1]
            ELSE /\ infer.kind # "instruct"
                 /\ infer.spk_embedding = NoneVal

\* C15 witness: a record with an empty embedding under the own id and one with
\* a vector under the first alias: no embedding resolved, and the run was
\* synthesized by ZeroShot from the reference clip.
C15_Witness ==
    /\ BatchRun
    /\ batch[1].spk = SpkShadow
    /\ batch[1].spk.tokens[ModelId] = Tok(<<>>)
    /\ batch[1].spk.tokens[AliasIds[1]] = Tok(<<"e4">>)
    /\ infer.kind = "zero_shot"
    /\ calls >= 1

\* C16: a cache-miss run that ends with no error and no stop request holds
\* one pair per segment, in input order, each the output rate 22050 with the
\* engine's output for the j-th segment's text under the strategy, the
\* instruct text and the seed of segment[0]; what the later segments carry
\* besides their text does not enter it.
C16_OnePairPerSegment ==
    (/\ RunAt("g_miss") \/ RunAt("g_done")
     /\ probe = {}
     /\ err = ""
     /\ stopAt = -1) =>
        LET f == Select(batch[1], spk_to_embedding(batch[1].spk),
                        spk_to_ref_wav(batch[1].spk, batch[1].emotion))
            Pair(j) == <<22050, ToNumpy(Engine(f, batch[j].text,
                                               Seeded(batch[1].infer_seed)))>>
        IN  /\ Len(results) = Len(batch)
            /\ \A j \in 1..Len(batch) : results[j] = Pair(j)
            /\ yielded = {[j \in 1..Len(batch) |-> Pair(j)]}

\* C16 witness: a batch whose second segment carries another speaker, emotion,
\* prompt and seed than the first has been synthesized to the end.
C16_Witness ==
    /\ RunAt("g_done")
    /\ probe = {}
    /\ err = ""
    /\ stopAt = -1
    /\ Len(batch) = 2
    /\ batch[2].spk # batch[1].spk
    /\ batch[2].emotion # batch[1].emotion
    /\ Seeded(batch[2].infer_seed) # Seeded(batch[1].infer_seed)
    /\ Len(results) = 2
    /\ results[2][2][2].func.kind = "instruct"

\* C17: whenever a batch run that has passed its load() step is about to make
\* an inference call, the instance it runs on holds a model and a front-end,
\* whatever unload() calls other threads have made meanwhile.
C17_UnloadSafeDuringRun ==
    \A t \in Threads :
        (caller[t] = "batch" /\ pc[t] = "g_infer") => ~HandleAbsent(inst[t])

\* C18: while the lock is free the class's model slot and front-end slot are
\* both set or both None, so is_loaded() is true exactly when both are set;
\* and whenever the two differ, a thread is inside load() or unload() holding
\* the lock.
C18_SlotsAgreeOutsideLock ==
    /\ lock = Free =>
          /\ (clsModel = None) <=> (clsFrontend = None)
          /\ is_loaded <=> (clsModel # None /\ clsFrontend # None)
          /\ clsModel = clsFrontend
    /\ ((clsModel = None) # (clsFrontend = None)) =>
          \E t \in Threads : lock = t /\ pc[t] \in CriticalPcs

\* C18 witness: a second handle has been published after an unload(), the lock
\* is free again, and both slots hold it.
C18_Witness ==
    /\ lock = Free
    /\ is_loaded
    /\ clsModel = 2
    /\ clsFrontend = 2
    /\ \A t \in Threads : pc[t] \notin CriticalPcs

\* Thread t's load() raises out of its initialization in this step.
LoadRaises(t) ==
    /\ pc[t] \in {"ld_init", "ld_model"}
    /\ pc'[t] \notin LoadPcs

\* C19: when the initialization of a load() raises, the error leaves load()
\* (to the caller, not back into the initialization), nothing more is
\* constructed or transferred, the class slots are None, is_loaded() is false
\* and the lock is free, so the next load() finds nothing loaded; and a thread
\* that begins an initialization begins it with no front-end or model in hand.
C19_FailedLoadLeavesUnloaded ==
    [][/\ \A t \in Threads :
             LoadRaises(t) =>
                 /\ pc'[t] \in {"idle", "g_loadfail"}
                 /\ lock' = Free
                 /\ clsModel' = None
                 /\ clsFrontend' = None
                 /\ ~is_loaded'
                 /\ nextId' = nextId
                 /\ transfers' = transfers
                 /\ epochInits' = epochInits
       /\ \A t \in Threads :
             pc'[t] = "ld_init" =>
                 (lock' = t /\ locFrontend'[t] = None /\ locModel'[t] = None)]_vars

\* C19 witness: an initialization on one instance failed after it had built
\* the front-end (the instance still holds it, with no model), nothing is
\* loaded, and a load() on another instance has taken the lock and begun the
\* initialization from its first step.
C19_Witness ==
    \E t \in Threads, i, j \in Insts :
        /\ i # j
        /\ selfFrontend[i] = 1
        /\ selfModel[i] = None
        /\ nextId = 1
        /\ ~is_loaded
        /\ pc[t] = "ld_init"
        /\ inst[t] = j
        /\ lock = t
        /\ \A u \in Threads \ {t} : pc[u] \notin LoadPcs

\* The first k pairs of the batch's full result list.
ResultPrefix(k) ==
    [j \in 1..k |->
        <<22050, ToNumpy(Engine(Bind(batch[1]), batch[j].text,
                                Seeded(batch[1].infer_seed)))>>]

\* C20: a cache-miss run that has yielded has written the cache once, after
\* its last inference call, with the very list it yields and returns, whole or
\* cut short; before that it has written nothing; the one entry the probe reads
\* is the one the write sets, so what the cache holds is the earlier value or
\* a prefix of the batch's result list, and a run that finds it returns it
\* without an inference call, whether or not the stop flag is set.
C20_OneWriteOfReturnedList ==
    /\ (BatchRun /\ probe = {}) =>
          IF RunAt("g_miss") \/ RunAt("g_done")
          THEN /\ writes = 1
               /\ cache = {results}
               /\ yielded = {results}
               /\ retval # {} => retval = {results}
               /\ calls = Len(results)
               /\ err = ""
          ELSE /\ writes = 0
               /\ cache = cache0
    /\ (BatchRun /\ probe # {}) =>
          /\ probe = cache0
          /\ yielded = probe
          /\ calls = 0
          /\ writes = 0
    /\ cache \in {{}, {Earlier}} \cup {{ResultPrefix(k)} : k \in 0..Len(batch)}

\* C20 witness: a run of a two-segment batch found in the cache the one-pair
\* list an earlier, cancelled run had stored, and returned it without an
\* inference call although the stop flag is not set.
C20_Witness ==
    /\ RunAt("g_done")
    /\ Len(batch) = 2
    /\ probe = {ResultPrefix(1)}
    /\ retval = probe
    /\ ~stop
    /\ stopAt = -1
    /\ calls = 0
    /\ loads = 0

\* ---------------------------------------------------------- specifications

\* The pipeline: thread t1 synthesizes batches on instance i1 while thread t2
\* calls load() and unload().
Init ==
    /\ InitUnloaded({"i1"})
    /\ InitThreads
    /\ InitRun(Batches)

Next ==
    \/ \E i \in Insts : StartRun("t1", i)
    \/ Synthesis
    \/ LifeCalls({"t2"}) /\ UNCHANGED runVars
    \/ LifeSteps /\ UNCHANGED runVars

Spec == Init /\ [][Next]_vars

\* The lifecycle alone: every thread constructs instances and calls load()
\* and unload() on them.
InitLife ==
    /\ InitUnloaded({})
    /\ InitThreads
    /\ InitRun({Batch(Seg(TextOf(1), NullSpk, "", "", 1), 1, TRUE)})
    /\ cache = {}

NextLife ==
    \/ (\E i \in Insts : Construct(i)) /\ UNCHANGED runVars
    \/ LifeCalls(Threads) /\ UNCHANGED runVars
    \/ LifeSteps /\ UNCHANGED runVars

SpecLife == InitLife /\ [][NextLife]_vars

\* The directly invoked modes: instance i1 holds an engine handle whose
\* front-end has either value of the instruct flag; thread t1 invokes the
\* inference methods on it while thread t2 calls load() and unload().
InitModes ==
    /\ clsModel = 1
    /\ clsFrontend = 1
    /\ lock = Free
    /\ constructed = {"i1"}
    /\ selfModel = [i \in Insts |-> IF i = "i1" THEN 1 ELSE None]
    /\ selfFrontend = [i \in Insts |-> IF i = "i1" THEN 1 ELSE None]
    /\ \E b \in BOOLEAN :
          feInstruct = [h \in 1..MaxInits |-> IF h = 1 THEN b ELSE LoadInstructArg]
    /\ nextId = 1
    /\ locFrontend = [t \in Threads |-> None]
    /\ locModel = [t \in Threads |-> None]
    /\ lastRet = NoHandle
    /\ epochRets = {}
    /\ epochInits = 1
    /\ epochLoads = 0
    /\ transfers = 1
    /\ InitThreads
    /\ InitRun({Batch(Seg(TextOf(1), NullSpk, "", "", 1), 1, TRUE)})
    /\ cache = {}

NextModes ==
    \/ \E i \in Insts, m \in Methods, n \in 1..MaxSegs : StartDirect("t1", i, m, n)
    \/ Direct
    \/ \E t \in Threads : Finish(t)
    \/ LifeCalls({"t2"}) /\ UNCHANGED runVars
    \/ LifeSteps /\ UNCHANGED runVars

SpecModes == InitModes /\ [][NextModes]_vars

====
